---------------------------- MODULE Spec2Model ----------------------------
(***************************************************************************)
(* A model of indiapins (src/indiapins/__init__.py): the import-time       *)
(* loader of pins.json.bz2 and the five query functions matching, isvalid, *)
(* districtmatch, coordinates and nearby, each behind the _clean_zipcode   *)
(* decorator.                                                              *)
(*                                                                         *)
(* Python values are records [t, s, n]: t is the type name, s the text of  *)
(* a str as a sequence of Unicode code points, n the value of a number.    *)
(* A float is held in hundredths (n = 2850 is 28.5); every coordinate of   *)
(* the record pool is a multiple of 0.25, so that the IEEE arithmetic of   *)
(* nearby is exact on it and the integer arithmetic below computes what    *)
(* the code computes.  A dict is a function from its keys to its values.   *)
(***************************************************************************)
EXTENDS Integers, Sequences, FiniteSets, TLC

VARIABLES
    lines,      \* the text lines the resource holds
    lineno,     \* number of lines the loader's loop has consumed
    pc,         \* "loading" | "ready" | "returned"
    _zips,      \* the module-level dataset
    loadError,  \* "" or the name of the exception the loader's except caught
    call        \* the query call being observed: its arguments and outcome

vars == <<lines, lineno, pc, _zips, loadError, call>>

---------------------------------------------------------------------------
(* Bounds of the model *)

MaxLen == 3
MaxLines == 3

---------------------------------------------------------------------------
(* Python values *)

PV(t, s, n) == [t |-> t, s |-> s, n |-> n]
PyNone == PV("None", <<>>, 0)
PyStr(s) == PV("str", s, 0)
PyInt(n) == PV("int", <<>>, n)
PyFloat(h) == PV("float", <<>>, h)

\* Code points: "0".."9" are 48..57, the Devanagari digits U+0966..U+096F
\* are 2406..2415; both ranges are in Unicode category Nd.
ASCIIDigits == 48..57
DevanagariDigits == 2406..2415
Space == {32, 9}

IsDecimalDigit(c) == c \in ASCIIDigits \/ c \in DevanagariDigits

DigitValue(c) == IF c \in ASCIIDigits THEN c - 48 ELSE c - 2406

RECURSIVE DigitsOf(_)
DigitsOf(n) ==
    IF n < 10 THEN <<48 + n>> ELSE DigitsOf(n \div 10) \o <<48 + (n % 10)>>

\* repr of an int
IntText(n) == IF n < 0 THEN <<45>> \o DigitsOf(-n) ELSE DigitsOf(n)

\* repr of a float held in hundredths: "28.5", "28.75", "28.0"
FloatText(h) ==
    LET a == IF h < 0 THEN -h ELSE h
        f == a % 100
        frac == IF f % 10 = 0 THEN <<48 + (f \div 10)>>
                ELSE <<48 + (f \div 10), 48 + (f % 10)>>
    IN  (IF h < 0 THEN <<45>> ELSE <<>>) \o DigitsOf(a \div 100) \o <<46>> \o frac

\* str(v)
str(v) ==
    CASE v.t = "str" -> v.s
      [] v.t = "int" -> IntText(v.n)
      [] v.t = "float" -> FloatText(v.n)
      [] OTHER -> <<78, 111, 110, 101>>

\* bool(v)
Truthy(v) ==
    CASE v.t = "str" -> v.s # <<>>
      [] v.t = "int" -> v.n # 0
      [] v.t = "float" -> v.n # 0
      [] OTHER -> FALSE

RECURSIVE LStrip(_)
LStrip(s) == IF s # <<>> /\ Head(s) \in Space THEN LStrip(Tail(s)) ELSE s

RECURSIVE RStrip(_)
RStrip(s) ==
    IF s # <<>> /\ s[Len(s)] \in Space THEN RStrip(SubSeq(s, 1, Len(s) - 1)) ELSE s

Strip(s) == RStrip(LStrip(s))

RECURSIVE NumberOf(_)
NumberOf(ds) ==
    IF ds = <<>> THEN 0
    ELSE 10 * NumberOf(SubSeq(ds, 1, Len(ds) - 1)) + DigitValue(ds[Len(ds)])

AllDigits(s) == \A k \in 1..Len(s) : IsDecimalDigit(s[k])

\* float(text) for decimal text of at most two fractional digits:
\* [sign] digits [. digits], surrounding whitespace ignored.
FloatOfText(s) ==
    LET t == Strip(s)
        signed == t # <<>> /\ t[1] \in {43, 45}
        body == IF signed THEN Tail(t) ELSE t
        dots == {k \in 1..Len(body) : body[k] = 46}
        dot == IF dots = {} THEN Len(body) + 1 ELSE CHOOSE k \in dots : TRUE
        ip == SubSeq(body, 1, dot - 1)
        fp == SubSeq(body, dot + 1, Len(body))
        wellformed == /\ Cardinality(dots) <= 1
                      /\ AllDigits(ip) /\ AllDigits(fp)
                      /\ Len(ip) + Len(fp) > 0
                      /\ Len(fp) <= 2
        hundredths == IF Len(fp) = 0 THEN 0
                      ELSE IF Len(fp) = 1 THEN 10 * NumberOf(fp)
                      ELSE NumberOf(fp)
        mag == 100 * NumberOf(ip) + hundredths
    IN  IF wellformed
        THEN [exc |-> "", h |-> IF signed /\ t[1] = 45 THEN -mag ELSE mag]
        ELSE [exc |-> "ValueError", h |-> 0]

\* float(v): a number, or the exception float raises
float(v) ==
    CASE v.t = "str" -> FloatOfText(v.s)
      [] v.t = "int" -> [exc |-> "", h |-> 100 * v.n]
      [] v.t = "float" -> [exc |-> "", h |-> v.n]
      [] OTHER -> [exc |-> "TypeError", h |-> 0]

abs(x) == IF x < 0 THEN -x ELSE x

\* entry.get(key, default)
get(entry, key, default) == IF key \in DOMAIN entry THEN entry[key] ELSE default

\* s < t in Python's order on str (by code point, a prefix first)
RECURSIVE StrLess(_, _)
StrLess(s, t) ==
    IF t = <<>> THEN FALSE
    ELSE IF s = <<>> THEN TRUE
    ELSE IF Head(s) # Head(t) THEN Head(s) < Head(t)
    ELSE StrLess(Tail(s), Tail(t))

\* sorted with the comparison reversed
RECURSIVE sorted_descending(_)
sorted_descending(S) ==
    IF S = {} THEN <<>>
    ELSE LET m == CHOOSE x \in S : \A y \in S \ {x} : StrLess(y, x)
         IN  <<m>> \o sorted_descending(S \ {m})

\* sorted(S) of a set of str
RECURSIVE sorted(_)
sorted(S) ==
    IF S = {} THEN <<>>
    ELSE LET m == CHOOSE x \in S : \A y \in S \ {x} : StrLess(x, y)
         IN  <<m>> \o sorted(S \ {m})

\* sep.join(seq)
RECURSIVE join(_, _)
join(sep, seq) ==
    IF seq = <<>> THEN <<>>
    ELSE IF Len(seq) = 1 THEN seq[1]
    ELSE seq[1] \o sep \o join(sep, Tail(seq))

Range(seq) == {seq[k] : k \in 1..Len(seq)}

\* the orders in which a set can be iterated
Orders(S) ==
    {q \in [1..Cardinality(S) -> S] : \A a, b \in 1..Cardinality(S) : a # b => q[a] # q[b]}

\* What a call does: it returns a value or raises.  scan holds the zipcode
\* the function body ran with, and is empty when the body never ran.
Return(v) == [kind |-> "return", exc |-> "", msg |-> "", value |-> v, scan |-> <<>>]
Raise(exc, msg) == [kind |-> "raise", exc |-> exc, msg |-> msg, value |-> <<>>, scan |-> <<>>]

\* The zips argument of a query: absent (None) or a sequence of dicts
NoZips == [none |-> TRUE, seq |-> <<>>]
Given(seq) == [none |-> FALSE, seq |-> seq]

---------------------------------------------------------------------------
(* Validation of the zipcode argument *)

_valid_zipcode_length == 6

\* _digits.search(zipcode), _digits = re.compile(r"[^\d]"): some character
\* is not a decimal digit (\d of a str pattern is Unicode category Nd)
_digits(zipcode) == \E k \in 1..Len(zipcode) : ~IsDecimalDigit(zipcode[k])

\* _clean without its search for a non-digit
_clean_length_only(zipcode) ==
    IF Len(zipcode) # _valid_zipcode_length
    THEN Raise("ValueError", "Invalid format, pincode must be exactly 6 digits.")
    ELSE Return(zipcode)

_clean(zipcode) ==
    IF Len(zipcode) # _valid_zipcode_length
    THEN Raise("ValueError", "Invalid format, pincode must be exactly 6 digits.")
    ELSE IF _digits(zipcode)
    THEN Raise("ValueError", "Invalid characters, pincode may only contain digits.")
    ELSE Return(zipcode)

\* The decorator's own part: it raises, or hands _clean(zipcode) to fn
_clean_zipcode(zipcode) ==
    IF ~Truthy(zipcode) \/ zipcode.t # "str"
    THEN Raise("TypeError", "Invalid type, pincode must be a string.")
    ELSE _clean(zipcode.s)

\* "return fn(_clean(zipcode), ...)": out is what fn did with argument z
Ran(z, out) == [out EXCEPT !.scan = <<z>>]

---------------------------------------------------------------------------
(* The query functions *)

\* "if zips is None: zips = _zips"
Dataset(zips) == IF zips.none THEN _zips ELSE zips.seq

Carries(entry, zipcode) == "Pincode" \in DOMAIN entry /\ str(entry["Pincode"]) = zipcode

\* matching comparing Pincode as stored, without str()
matching_fn_no_str(zipcode, zips) ==
    LET Keep(entry) == "Pincode" \in DOMAIN entry /\ entry["Pincode"] = PyStr(zipcode)
    IN  Return(SelectSeq(Dataset(zips), Keep))

matching_fn(zipcode, zips) ==
    LET Keep(entry) == Carries(entry, zipcode)
    IN  Return(SelectSeq(Dataset(zips), Keep))

matching(zipcode, zips) ==
    LET a == _clean_zipcode(zipcode)
    IN  IF a.kind = "raise" THEN a ELSE Ran(a.value, matching_fn(a.value, zips))

isvalid_fn(zipcode, zips) ==
    LET m == matching(PyStr(zipcode), Given(Dataset(zips)))
    IN  IF m.kind = "raise" THEN m ELSE Return(m.value # <<>>)

isvalid(zipcode, zips) ==
    LET a == _clean_zipcode(zipcode)
    IN  IF a.kind = "raise" THEN a ELSE Ran(a.value, isvalid_fn(a.value, zips))

\* districts without the "if dist" test
districts_unfiltered(zipcode, zips) ==
    LET zs == Dataset(zips)
    IN  {get(zs[k], "District", PyNone) : k \in {j \in 1..Len(zs) : Carries(zs[j], zipcode)}}

\* the set districtmatch collects
districts(zipcode, zips) ==
    LET zs == Dataset(zips)
    IN  {get(zs[k], "District", PyNone) :
            k \in {j \in 1..Len(zs) : /\ Carries(zs[j], zipcode)
                                      /\ Truthy(get(zs[j], "District", PyNone))}}

\* districtmatch without its "if not districts: raise"
districtmatch_fn_no_raise(zipcode, zips, order) ==
    Return(join(<<44, 32>>, [k \in DOMAIN order |-> order[k].s]))

\* order: the order in which ", ".join iterates the set
districtmatch_fn(zipcode, zips, order) ==
    IF districts(zipcode, zips) = {}
    THEN Raise("ValueError", "Invalid Pincode, not found in database")
    ELSE Return(join(<<44, 32>>, [k \in DOMAIN order |-> order[k].s]))

districtmatch(zipcode, zips, order) ==
    LET a == _clean_zipcode(zipcode)
    IN  IF a.kind = "raise" THEN a ELSE Ran(a.value, districtmatch_fn(a.value, zips, order))

\* {}
EmptyDict == [x \in {} |-> PyNone]

Unknown == <<85, 110, 107, 110, 111, 119, 110>>

\* an assignment that keeps the entry a key already has
SetItem_keep_first(map, key, value) ==
    [x \in DOMAIN map \cup {key} |-> IF x \in DOMAIN map THEN map[x] ELSE value]

\* coords_map[name] = {...}
SetItem(map, key, value) ==
    [x \in DOMAIN map \cup {key} |-> IF x = key THEN value ELSE map[x]]

RECURSIVE coords_loop(_, _)
coords_loop(matches, coords_map) ==
    IF matches = <<>> THEN coords_map
    ELSE LET entry == Head(matches)
             name == get(entry, "Name", PyStr(Unknown))
             lat == get(entry, "Latitude", PyStr(<<>>))
             lon == get(entry, "Longitude", PyStr(<<>>))
         IN  coords_loop(Tail(matches),
                 SetItem(coords_map, name, [latitude |-> str(lat), longitude |-> str(lon)]))

coordinates_fn(zipcode, zips) ==
    LET m == matching(PyStr(zipcode), Given(Dataset(zips)))
    IN  IF m.kind = "raise" THEN m ELSE Return(coords_loop(m.value, EmptyDict))

coordinates(zipcode, zips) ==
    LET a == _clean_zipcode(zipcode)
    IN  IF a.kind = "raise" THEN a ELSE Ran(a.value, coordinates_fn(a.value, zips))

DefaultMaxDiff == 5

\* the list comprehension of nearby: the records that can anchor zipcode
center_entries(zipcode, zips) ==
    LET IsCenter(z) == /\ Carries(z, zipcode)
                       /\ Truthy(get(z, "Latitude", PyNone))
                       /\ Truthy(get(z, "Longitude", PyNone))
    IN  SelectSeq(Dataset(zips), IsCenter)

\* the for loop of nearby from record k on; the exception that leaves it,
\* if any, and the set nearby_pins at that point
RECURSIVE nearby_loop(_, _, _, _, _, _)
nearby_loop(zs, k, center_lat, center_lon, max_diff, nearby_pins) ==
    IF k > Len(zs) THEN [exc |-> "", pins |-> nearby_pins]
    ELSE LET record == zs[k]
             next(pins) == nearby_loop(zs, k + 1, center_lat, center_lon, max_diff, pins)
         IN  IF "Pincode" \notin DOMAIN record THEN next(nearby_pins)
             ELSE LET lat == float(get(record, "Latitude", PyStr(<<>>)))
                  IN  IF lat.exc = "ValueError" THEN next(nearby_pins)
                      ELSE IF lat.exc # "" THEN [exc |-> lat.exc, pins |-> nearby_pins]
                      ELSE LET lon == float(get(record, "Longitude", PyStr(<<>>)))
                           IN  IF lon.exc = "ValueError" THEN next(nearby_pins)
                               ELSE IF lon.exc # "" THEN [exc |-> lon.exc, pins |-> nearby_pins]
                               ELSE LET dist == abs(lat.h - center_lat) + abs(lon.h - center_lon)
                                    IN  IF dist <= max_diff
                                        THEN next(nearby_pins \cup {str(record["Pincode"])})
                                        ELSE next(nearby_pins)

nearby_fn(zipcode, max_diff, zips) ==
    LET centers == center_entries(zipcode, zips)
    IN  IF centers = <<>> THEN Return(<<>>)
        ELSE LET center_lat == float(centers[1]["Latitude"])
                 center_lon == float(centers[1]["Longitude"])
             IN  IF center_lat.exc # "" THEN Raise(center_lat.exc, "float")
                 ELSE IF center_lon.exc # "" THEN Raise(center_lon.exc, "float")
                 ELSE LET loop == nearby_loop(Dataset(zips), 1, center_lat.h,
                                              center_lon.h, max_diff, {})
                      IN  IF loop.exc # "" THEN Raise(loop.exc, "float")
                          ELSE Return(sorted(loop.pins \ {zipcode}))

nearby(zipcode, max_diff, zips) ==
    LET a == _clean_zipcode(zipcode)
    IN  IF a.kind = "raise" THEN a ELSE Ran(a.value, nearby_fn(a.value, max_diff, zips))

---------------------------------------------------------------------------
(* The loader *)

\* A line of the resource: the JSON document it holds between whitespace.
\* A document is blank text, malformed text, a list, an object, or text
\* nested deeper than the interpreter's recursion limit (json.loads then
\* raises RecursionError, which is not a JSONDecodeError).
Doc(k, obj) == [k |-> k, obj |-> obj]
Line(ws, doc) == [ws |-> ws, doc |-> doc]

\* line.strip()
strip(line) == Line(<<>>, line.doc)

\* json.loads(line)
json_loads(line) ==
    CASE line.doc.k = "object" -> [exc |-> "", isdict |-> TRUE, obj |-> line.doc.obj]
      [] line.doc.k = "list" -> [exc |-> "", isdict |-> FALSE, obj |-> EmptyDict]
      [] line.doc.k = "deep" -> [exc |-> "RecursionError", isdict |-> FALSE, obj |-> EmptyDict]
      [] OTHER -> [exc |-> "JSONDecodeError", isdict |-> FALSE, obj |-> EmptyDict]

\* The body of the for loop on one line: what _zips becomes, and the
\* exception that leaves the loop, if any.
load_line(line, zs) ==
    LET stripped == strip(line)
        parsed == json_loads(stripped)
    IN  IF stripped.doc.k = "blank" THEN [exc |-> "", zips |-> zs]
        ELSE IF parsed.exc = "JSONDecodeError" THEN [exc |-> "", zips |-> zs]
        ELSE IF parsed.exc # "" THEN [exc |-> parsed.exc, zips |-> zs]
        ELSE IF ~parsed.isdict THEN [exc |-> "", zips |-> zs]
        ELSE IF "Pincode" \notin DOMAIN parsed.obj THEN [exc |-> "", zips |-> zs]
        ELSE [exc |-> "", zips |-> Append(zs, parsed.obj)]

---------------------------------------------------------------------------
(* The values the model draws from *)

A == <<49, 49, 48, 48, 48, 49>>
B == <<49, 49, 48, 48, 48, 50>>
C == <<49, 49, 48, 48, 48, 51>>

r1 == [Pincode |-> PyStr(A), Name |-> PyStr(<<67, 80>>), District |-> PyStr(<<78, 68>>),
       Latitude |-> PyStr(<<50, 56, 46, 53>>), Longitude |-> PyStr(<<55, 55, 46, 50, 53>>)]
r2 == [Pincode |-> PyInt(110001), Name |-> PyStr(<<67, 80>>), District |-> PyStr(<<67, 68>>),
       Latitude |-> PyFloat(2875), Longitude |-> PyStr(<<55, 55, 46, 50, 53>>)]
r3 == [Pincode |-> PyStr(A), District |-> PyStr(<<>>), Latitude |-> PyNone]
r4 == [Pincode |-> PyStr(B), Name |-> PyStr(<<80, 83>>), District |-> PyStr(<<78, 68>>),
       Latitude |-> PyStr(<<50, 56, 46, 53>>), Longitude |-> PyStr(<<55, 55, 46, 53>>)]
r5 == [Pincode |-> PyInt(110003), Name |-> PyNone,
       Latitude |-> PyStr(<<32, 50, 56, 46, 53>>), Longitude |-> PyFloat(7725)]
r6 == [Pincode |-> PyStr(B), Name |-> PyStr(<<80, 83>>),
       Latitude |-> PyStr(<<78, 65>>), Longitude |-> PyStr(<<78, 65>>)]
r7 == [Name |-> PyStr(<<67, 80>>), District |-> PyStr(<<78, 68>>),
       Latitude |-> PyStr(<<50, 56, 46, 53>>), Longitude |-> PyStr(<<55, 55, 46, 50, 53>>)]

Records == {r1, r2, r3, r4, r5, r6, r7}

SeqsUpTo(S, n) == UNION {[1..k -> S] : k \in 0..n}

Datasets == SeqsUpTo(Records, MaxLen)

ValidZipcodes == {PyStr(A), PyStr(B), PyStr(C), PyStr(<<2407, 2407, 2406, 2406, 2406, 2407>>)}

InvalidZipcodes ==
    {PyNone, PyInt(110001), PyStr(<<>>), PyStr(<<49, 49, 48, 48, 48>>),
     PyStr(A \o <<49>>), PyStr(<<49, 49, 48, 48, 48, 65>>)}

Zipcodes == ValidZipcodes \cup InvalidZipcodes

MaxDiffs == {DefaultMaxDiff, 25}

LinePool ==
    {Line(<<10>>, Doc("blank", EmptyDict)), Line(<<32, 10>>, Doc("blank", EmptyDict)),
     Line(<<10>>, Doc("malformed", EmptyDict)), Line(<<10>>, Doc("list", EmptyDict)),
     Line(<<10>>, Doc("deep", EmptyDict)), Line(<<10>>, Doc("object", r7)),
     Line(<<32, 10>>, Doc("object", r1)), Line(<<10>>, Doc("object", r4))}

Resources == SeqsUpTo(LinePool, MaxLines)

NoCall == [op |-> "", zipcode |-> PyNone, max_diff |-> 0, zips |-> NoZips, out |-> Return(<<>>)]

---------------------------------------------------------------------------
(* Import: the loader *)

Init ==
    /\ lines \in Resources
    /\ lineno = 0
    /\ pc = "open"
    /\ _zips = <<>>
    /\ loadError = ""
    /\ call = NoCall

\* bz2_open(_zips_json, "rt") succeeds
Open ==
    /\ pc = "open"
    /\ pc' = "loading"
    /\ UNCHANGED <<lines, lineno, _zips, loadError, call>>

\* bz2_open raises (the file is missing or unreadable); the except prints
OpenFails ==
    /\ pc = "open"
    /\ pc' = "ready"
    /\ loadError' = "OSError"
    /\ UNCHANGED <<lines, lineno, _zips, call>>

\* one iteration of the for loop
LoadLine ==
    /\ pc = "loading"
    /\ lineno < Len(lines)
    /\ LET r == load_line(lines[lineno + 1], _zips)
       IN  /\ _zips' = r.zips
           /\ lineno' = lineno + 1
           /\ loadError' = r.exc
           /\ pc' = IF r.exc = "" THEN "loading" ELSE "ready"
    /\ UNCHANGED <<lines, call>>

\* reading the next line raises (truncated or corrupt bz2 stream, bytes that
\* are not UTF-8); the except prints
ReadFails ==
    /\ pc = "loading"
    /\ \E exc \in {"EOFError", "UnicodeDecodeError"} : loadError' = exc
    /\ pc' = "ready"
    /\ UNCHANGED <<lines, lineno, _zips, call>>

\* the file is exhausted
LoadEnd ==
    /\ pc = "loading"
    /\ lineno = Len(lines)
    /\ pc' = "ready"
    /\ UNCHANGED <<lines, lineno, _zips, loadError, call>>

---------------------------------------------------------------------------
(* Queries: Call* with the default dataset, Call*On with the caller's *)

Observe(op, zipcode, max_diff, zips, out) ==
    /\ pc = "ready"
    /\ pc' = "returned"
    /\ call' = [op |-> op, zipcode |-> zipcode, max_diff |-> max_diff, zips |-> zips, out |-> out]
    /\ UNCHANGED <<lines, lineno, _zips, loadError>>

DoMatching(zipcode, zips) == Observe("matching", zipcode, 0, zips, matching(zipcode, zips))

DoIsvalid(zipcode, zips) == Observe("isvalid", zipcode, 0, zips, isvalid(zipcode, zips))

DoDistrictmatch(zipcode, zips) ==
    \E order \in Orders(districts(zipcode.s, zips)) :
        Observe("districtmatch", zipcode, 0, zips, districtmatch(zipcode, zips, order))

DoCoordinates(zipcode, zips) ==
    Observe("coordinates", zipcode, 0, zips, coordinates(zipcode, zips))

DoNearby(zipcode, max_diff, zips) ==
    Observe("nearby", zipcode, max_diff, zips, nearby(zipcode, max_diff, zips))

\* the caller takes the outcome; the module is ready for the next call
Resume ==
    /\ pc = "returned"
    /\ pc' = "ready"
    /\ call' = NoCall
    /\ UNCHANGED <<lines, lineno, _zips, loadError>>

ImportZipcodes == {PyStr(A), PyStr(B), PyStr(<<49, 49, 48, 48, 48>>)}

CallMatching ==
    /\ pc = "ready"
    /\ \E z \in ImportZipcodes : DoMatching(z, NoZips)
CallIsvalid ==
    /\ pc = "ready"
    /\ \E z \in ImportZipcodes : DoIsvalid(z, NoZips)
CallDistrictmatch ==
    /\ pc = "ready"
    /\ \E z \in ImportZipcodes : DoDistrictmatch(z, NoZips)
CallCoordinates ==
    /\ pc = "ready"
    /\ \E z \in ImportZipcodes : DoCoordinates(z, NoZips)
CallNearby ==
    /\ pc = "ready"
    /\ \E z \in ImportZipcodes, md \in MaxDiffs : DoNearby(z, md, NoZips)

Next ==
    \/ Open
    \/ OpenFails
    \/ LoadLine
    \/ ReadFails
    \/ LoadEnd
    \/ CallMatching
    \/ CallIsvalid
    \/ CallDistrictmatch
    \/ CallCoordinates
    \/ CallNearby
    \/ Resume

Spec == Init /\ [][Next]_vars

\* The module imported with an empty resource, queried with datasets the
\* caller supplies.
InitOn ==
    /\ lines = <<>>
    /\ lineno = 0
    /\ pc = "ready"
    /\ _zips = <<>>
    /\ loadError = ""
    /\ call = NoCall

CallMatchingOn ==
    /\ pc = "ready"
    /\ \E z \in Zipcodes, ds \in Datasets : DoMatching(z, Given(ds))
CallIsvalidOn ==
    /\ pc = "ready"
    /\ \E z \in Zipcodes, ds \in Datasets : DoIsvalid(z, Given(ds))
CallDistrictmatchOn ==
    /\ pc = "ready"
    /\ \E z \in Zipcodes, ds \in Datasets : DoDistrictmatch(z, Given(ds))
CallCoordinatesOn ==
    /\ pc = "ready"
    /\ \E z \in Zipcodes, ds \in Datasets : DoCoordinates(z, Given(ds))
CallNearbyOn ==
    /\ pc = "ready"
    /\ \E z \in Zipcodes, md \in MaxDiffs, ds \in Datasets : DoNearby(z, md, Given(ds))

NextOn ==
    \/ CallMatchingOn
    \/ CallIsvalidOn
    \/ CallDistrictmatchOn
    \/ CallCoordinatesOn
    \/ CallNearbyOn
    \/ Resume

SpecOn == InitOn /\ [][NextOn]_vars

---------------------------------------------------------------------------
(* What the claims speak of *)

Returned(op) == pc = "returned" /\ call.op = op

\* the dataset the observed call ran on
ds == Dataset(call.zips)

\* a str of exactly six decimal digits
SixDigits(z) == z.t = "str" /\ Len(z.s) = 6 /\ \A k \in 1..6 : IsDecimalDigit(z.s[k])

Codes == {str(ds[k]["Pincode"]) : k \in {j \in 1..Len(ds) : "Pincode" \in DOMAIN ds[j]}}

NoRecordCarries(code) ==
    \A k \in 1..Len(ds) : "Pincode" \in DOMAIN ds[k] => str(ds[k]["Pincode"]) # code

FormatKind(out) ==
    /\ out.kind = "raise" /\ out.exc = "ValueError"
    /\ out.msg \in {"Invalid format, pincode must be exactly 6 digits.",
                   "Invalid characters, pincode may only contain digits."}

TypeKind(out) == out.kind = "raise" /\ out.exc = "TypeError" /\ out.scan = <<>>

NotFoundKind(out) ==
    /\ out.kind = "raise" /\ out.exc = "ValueError"
    /\ out.msg = "Invalid Pincode, not found in database"

\* the records matching returns for the observed call's zipcode and dataset
Matches == matching(call.zipcode, Given(ds)).value

---------------------------------------------------------------------------
(* The claims *)

C2_MatchingExact ==
    (Returned("matching") /\ SixDigits(call.zipcode)) =>
        LET z == call.zipcode.s
            hit == {k \in 1..Len(ds) : "Pincode" \in DOMAIN ds[k] /\ str(ds[k]["Pincode"]) = z}
            v == call.out.value
        IN  /\ call.out.kind = "return"
            /\ Len(v) = Cardinality(hit)
            /\ \E f \in [1..Len(v) -> hit] :
                  /\ \A a, b \in 1..Len(v) : a < b => f[a] < f[b]
                  /\ \A a \in 1..Len(v) : v[a] = ds[f[a]]

\* two matches, one stored as an int, around a record of another code
C2_Witness ==
    /\ Returned("matching")
    /\ call.out.kind = "return"
    /\ Len(call.out.value) = 2
    /\ Len(ds) = 3
    /\ ds[1] = call.out.value[1] /\ ds[3] = call.out.value[2]
    /\ \E k \in {1, 3} : ds[k]["Pincode"].t = "int"

\* C3: for a valid zipcode no record carries, matching returns [], isvalid
\* False, coordinates {}, nearby [], and districtmatch raises not-found.
C3_AbsentCode ==
    (pc = "returned" /\ SixDigits(call.zipcode) /\ NoRecordCarries(call.zipcode.s)) =>
        CASE call.op = "matching" -> call.out.kind = "return" /\ call.out.value = <<>>
          [] call.op = "isvalid" -> call.out.kind = "return" /\ call.out.value = FALSE
          [] call.op = "coordinates" -> call.out.kind = "return" /\ DOMAIN call.out.value = {}
          [] call.op = "nearby" -> call.out.kind = "return" /\ call.out.value = <<>>
          [] call.op = "districtmatch" -> NotFoundKind(call.out)
          [] OTHER -> FALSE

C3_Witness ==
    /\ Returned("districtmatch")
    /\ SixDigits(call.zipcode)
    /\ NoRecordCarries(call.zipcode.s)
    /\ \E k \in 1..Len(ds) : Truthy(get(ds[k], "District", PyNone))
    /\ NotFoundKind(call.out)

\* the distinct non-empty districts of the records matching returns
MatchedDistricts ==
    {Matches[k]["District"] :
        k \in {j \in 1..Len(Matches) : /\ "District" \in DOMAIN Matches[j]
                                       /\ Matches[j]["District"].t = "str"
                                       /\ Matches[j]["District"].s # <<>>}}

\* C4: districtmatch names each distinct non-empty district of the records
\* matching returns exactly once, joined by ", ", and raises not-found if
\* and only if there is none.
C4_DistrictsOfMatches ==
    (Returned("districtmatch") /\ SixDigits(call.zipcode)) =>
        /\ NotFoundKind(call.out) <=> MatchedDistricts = {}
        /\ MatchedDistricts # {} =>
              /\ call.out.kind = "return"
              /\ \E q \in Orders(MatchedDistricts) :
                    call.out.value = join(<<44, 32>>, [k \in DOMAIN q |-> q[k].s])

\* two districts out of three matching records
C4_Witness ==
    /\ Returned("districtmatch")
    /\ call.out.kind = "return"
    /\ Len(Matches) = 3
    /\ Cardinality(MatchedDistricts) = 2

\* the key coordinates files a record under
NameKey(entry) == IF "Name" \in DOMAIN entry THEN entry["Name"] ELSE PyStr(Unknown)

TextOf(entry, field) == IF field \in DOMAIN entry THEN str(entry[field]) ELSE <<>>

\* C5: coordinates returns one entry per distinct name of the records
\* matching returns ("Unknown" for a record without Name), holding the
\* str of Latitude and Longitude ("" when absent) of the last such record.
C5_CoordinatesLastWins ==
    (Returned("coordinates") /\ SixDigits(call.zipcode)) =>
        LET v == call.out.value
        IN  /\ call.out.kind = "return"
            /\ DOMAIN v = {NameKey(Matches[k]) : k \in 1..Len(Matches)}
            /\ \A name \in DOMAIN v :
                  LET same == {k \in 1..Len(Matches) : NameKey(Matches[k]) = name}
                      last == CHOOSE k \in same : \A j \in same : j <= k
                  IN  v[name] = [latitude |-> TextOf(Matches[last], "Latitude"),
                                 longitude |-> TextOf(Matches[last], "Longitude")]

\* three matching records under two names; the shared name's two records
\* differ in latitude
C5_Witness ==
    /\ Returned("coordinates")
    /\ call.out.kind = "return"
    /\ Len(Matches) = 3
    /\ Cardinality(DOMAIN call.out.value) = 2
    /\ PyStr(Unknown) \in DOMAIN call.out.value
    /\ \E a, b \in 1..3 : /\ a < b
                          /\ NameKey(Matches[a]) = NameKey(Matches[b])
                          /\ TextOf(Matches[a], "Latitude") # TextOf(Matches[b], "Latitude")

Anchors(code) ==
    {k \in 1..Len(ds) : /\ "Pincode" \in DOMAIN ds[k] /\ str(ds[k]["Pincode"]) = code
                        /\ Truthy(get(ds[k], "Latitude", PyNone))
                        /\ Truthy(get(ds[k], "Longitude", PyNone))}

Parses(entry) ==
    /\ "Latitude" \in DOMAIN entry /\ float(entry["Latitude"]).exc = ""
    /\ "Longitude" \in DOMAIN entry /\ float(entry["Longitude"]).exc = ""

Distance(e1, e2) ==
    abs(float(e1["Latitude"]).h - float(e2["Latitude"]).h)
        + abs(float(e1["Longitude"]).h - float(e2["Longitude"]).h)

\* codes X and Y have one anchor each, no further apart than max_diff
CloseAnchors(X, Y) ==
    /\ Cardinality(Anchors(X)) = 1 /\ Cardinality(Anchors(Y)) = 1
    /\ LET ax == ds[CHOOSE k \in Anchors(X) : TRUE]
           ay == ds[CHOOSE k \in Anchors(Y) : TRUE]
       IN  Parses(ax) /\ Parses(ay) /\ Distance(ax, ay) <= call.max_diff

\* C7: for two distinct codes with one anchor each, no further apart than
\* max_diff, nearby of either returns the other (stated of the observed
\* call, which ranges over both)
C7_NearbySymmetric ==
    (Returned("nearby") /\ SixDigits(call.zipcode)) =>
        \A Y \in Codes \ {call.zipcode.s} :
            CloseAnchors(call.zipcode.s, Y) =>
                call.out.kind = "return" /\ Y \in Range(call.out.value)

\* the first anchor of the observed call's zipcode exists and parses
AnchorFound ==
    /\ Anchors(call.zipcode.s) # {}
    /\ Parses(ds[CHOOSE k \in Anchors(call.zipcode.s) : \A j \in Anchors(call.zipcode.s) : k <= j])

FirstAnchor == ds[CHOOSE k \in Anchors(call.zipcode.s) : \A j \in Anchors(call.zipcode.s) : k <= j]

\* C10: once an anchor is found, a record whose latitude or longitude is
\* missing, null or no number is skipped without failing nearby, and the
\* result is exactly the other codes of the records with parseable
\* coordinates within max_diff of the anchor.
C10_ScanSkipsUnparseable ==
    (Returned("nearby") /\ SixDigits(call.zipcode) /\ AnchorFound) =>
        /\ call.out.kind = "return"
        /\ Range(call.out.value) =
              {str(ds[k]["Pincode"]) :
                  k \in {j \in 1..Len(ds) : /\ "Pincode" \in DOMAIN ds[j]
                                            /\ Parses(ds[j])
                                            /\ Distance(ds[j], FirstAnchor) <= call.max_diff}}
                  \ {call.zipcode.s}

\* the source lines the loader is to admit, in order
RECURSIVE Admitted(_)
Admitted(ls) ==
    IF ls = <<>> THEN <<>>
    ELSE IF Head(ls).doc.k = "object" /\ "Pincode" \in DOMAIN Head(ls).doc.obj
         THEN <<Head(ls).doc.obj>> \o Admitted(Tail(ls))
         ELSE Admitted(Tail(ls))

ReadErrors == {"OSError", "EOFError", "UnicodeDecodeError"}

\* C8: when the resource was read to its end, the dataset holds exactly the
\* lines that are non-blank, parse to a dict and hold Pincode, in line
\* order; every other line was skipped without stopping the load.
C8_LoaderAdmitsExactly ==
    (pc \in {"ready", "returned"} /\ loadError \notin ReadErrors) => _zips = Admitted(lines)

\* C9: when opening or reading the resource failed, the dataset is empty.
C9_FailedLoadIsEmpty ==
    (pc \in {"ready", "returned"} /\ loadError \in ReadErrors) => _zips = <<>>

=============================================================================
